---- MODULE Spec2Model ----
(***************************************************************************)
(* Model of the three localisation maintenance scripts of language_pack:   *)
(*   update_templates.py     (template reconciler)                         *)
(*   format_templates.py     (template formatter)                          *)
(*   split_language_packs.py (string categorizer)                          *)
(* A file on disk is a record [state, nodes]; nodes are the children of    *)
(* the root element in document order.  Names and texts are tuples of      *)
(* short strings so that prefix tests, strip() and the formatter's regular *)
(* expression are computed, not looked up.                                 *)
(***************************************************************************)
EXTENDS Integers, Sequences, FiniteSets, TLC

\* ------------------------------------------------------------------------
\* Bounds of the model
\* ------------------------------------------------------------------------
MaxRuns == 2      \* tool invocations in one behaviour
MaxLen == 3       \* nodes in an initial template.xml
MaxStrings == 2   \* entries in an initial strings.xml

\* ------------------------------------------------------------------------
\* Names, texts, nodes, files
\* ------------------------------------------------------------------------
NoName == << >>
TPL_received_sms == <<"TPL_", "received_sms">>
TPL_battery == <<"TPL_", "battery">>
TPL_receiving_call == <<"TPL_", "receiving_call">>
app_name == <<"app_name">>

StringNode(n, a, t) == [kind |-> "string", name |-> n, attrs |-> a, text |-> t]
CommentNode(t) == [kind |-> "comment", name |-> NoName, attrs |-> FALSE, text |-> t]

NoDir == [state |-> "nodir", nodes |-> << >>]
Absent == [state |-> "absent", nodes |-> << >>]
Malformed(ns) == [state |-> "malformed", nodes |-> ns]
WellFormed(ns) == [state |-> "ok", nodes |-> ns]

Exists(f) == f.state \in {"ok", "malformed"}

EmptyMap == [n \in {} |-> << >>]

RECURSIVE LStrip(_)
LStrip(t) == IF t # << >> /\ Head(t) = " " THEN LStrip(Tail(t)) ELSE t

RECURSIVE RStrip(_)
RStrip(t) ==
  IF t # << >> /\ t[Len(t)] = " " THEN RStrip(SubSeq(t, 1, Len(t) - 1)) ELSE t

\* str.strip()
Strip(t) == RStrip(LStrip(t))

\* the keys of an ordered list of <<name, value>> pairs (a Python dict)
RECURSIVE PairKeys(_)
PairKeys(ps) == IF ps = << >> THEN {} ELSE {Head(ps)[1]} \cup PairKeys(Tail(ps))

\* dict[name] = value: an existing key keeps its position, a new one goes last
RECURSIVE DictSet(_, _, _)
DictSet(ps, n, v) ==
  IF ps = << >> THEN << <<n, v>> >>
  ELSE IF Head(ps)[1] = n THEN << <<n, v>> >> \o Tail(ps)
  ELSE << Head(ps) >> \o DictSet(Tail(ps), n, v)

\* ------------------------------------------------------------------------
\* update_templates.py: the template reconciler
\* ------------------------------------------------------------------------
REQUIRED_TEMPLATES == <<TPL_received_sms, TPL_battery, TPL_receiving_call>>

\* the language-pack directories in sorted order (also the formatter's order)
LangOrder == <<"zh-rCN", "zh-rHK">>
Langs == {LangOrder[i] : i \in DOMAIN LangOrder}

\* root.findall('string') with a name attribute, as a dict: the last wins
NamedStrings(ns) ==
  LET idxs == {i \in DOMAIN ns : ns[i].kind = "string" /\ ns[i].name # NoName}
      last(n) == CHOOSE i \in idxs :
                   ns[i].name = n /\ \A j \in idxs : ns[j].name = n => j <= i
  IN [n \in {ns[i].name : i \in idxs} |-> ns[last(n)]]

\* an unparsable file is reported and read as the empty dict
parse_template_xml(f) ==
  IF f.state = "ok" THEN NamedStrings(f.nodes) ELSE EmptyMap

\* etree.parse outside any try block raises on an unparsable file
ParseRaises(f) == f.state = "malformed"

\* name -> stripped text of the reference file; {} when the file is absent
get_reference_templates(f) ==
  IF f.state # "ok" THEN EmptyMap
  ELSE LET m == NamedStrings(f.nodes)
       IN [n \in DOMAIN m |-> Strip(m[n].text)]

\* the check of the loaded reference left out
ReferenceLoaded_always(ref) == TRUE

\* "if not reference_templates": the run goes on only with a non-empty dict
ReferenceLoaded(ref) == ref # EmptyMap

\* the membership test left out: every required name counts as missing
MissingTemplates_all(existing) == REQUIRED_TEMPLATES

MissingTemplates(existing) ==
  LET absent(t) == t \notin DOMAIN existing
  IN SelectSeq(REQUIRED_TEMPLATES, absent)

TodoComment(name) == CommentNode(<<" TODO: Translate ">> \o name \o <<" ">>)

\* the test "name in reference_templates" left out: a text-less entry is
\* written for a required name the reference lacks
RECURSIVE FreshNodes_unchecked(_, _)
FreshNodes_unchecked(names, ref) ==
  IF names = << >> THEN << >>
  ELSE << StringNode(Head(names), FALSE,
                     IF Head(names) \in DOMAIN ref THEN ref[Head(names)] ELSE << >>) >>
       \o FreshNodes_unchecked(Tail(names), ref)

\* the nodes of a new file: the required names the reference has
RECURSIVE FreshNodes(_, _)
FreshNodes(names, ref) ==
  IF names = << >> THEN << >>
  ELSE (IF Head(names) \in DOMAIN ref
          THEN << StringNode(Head(names), FALSE, ref[Head(names)]) >>
          ELSE << >>)
       \o FreshNodes(Tail(names), ref)

\* the nodes appended for the missing names: a comment, then the entry
RECURSIVE AppendedNodes(_, _)
AppendedNodes(missing, ref) ==
  IF missing = << >> THEN << >>
  ELSE (IF Head(missing) \in DOMAIN ref
          THEN << TodoComment(Head(missing)),
                  StringNode(Head(missing), FALSE, ref[Head(missing)]) >>
          ELSE << >>)
       \o AppendedNodes(Tail(missing), ref)

\* the file rebuilt from a new root instead of the parsed tree
update_template_file_rebuild(f, ref) ==
  IF ~Exists(f)
    THEN [file |-> WellFormed(FreshNodes(REQUIRED_TEMPLATES, ref)),
          ret |-> TRUE, wrote |-> TRUE, raised |-> FALSE]
  ELSE LET missing == MissingTemplates(parse_template_xml(f))
       IN IF missing = << >>
            THEN [file |-> f, ret |-> FALSE, wrote |-> FALSE, raised |-> FALSE]
          ELSE IF ParseRaises(f)
            THEN [file |-> f, ret |-> FALSE, wrote |-> FALSE, raised |-> TRUE]
          ELSE [file |-> WellFormed(AppendedNodes(missing, ref)),
                ret |-> TRUE, wrote |-> TRUE, raised |-> FALSE]

\* update_template_file: the file afterwards, the value returned, and
\* whether the call wrote the file or raised
update_template_file(f, ref) ==
  IF ~Exists(f)
    THEN [file |-> WellFormed(FreshNodes(REQUIRED_TEMPLATES, ref)),
          ret |-> TRUE, wrote |-> TRUE, raised |-> FALSE]
  ELSE LET missing == MissingTemplates(parse_template_xml(f))
       IN IF missing = << >>
            THEN [file |-> f, ret |-> FALSE, wrote |-> FALSE, raised |-> FALSE]
          ELSE IF ParseRaises(f)
            THEN [file |-> f, ret |-> FALSE, wrote |-> FALSE, raised |-> TRUE]
          ELSE [file |-> WellFormed(f.nodes \o AppendedNodes(missing, ref)),
                ret |-> TRUE, wrote |-> TRUE, raised |-> FALSE]

\* ------------------------------------------------------------------------
\* format_templates.py: the template formatter
\* ------------------------------------------------------------------------
\* the translated texts, abbreviated to one token each
TEMPLATE_TRANSLATIONS ==
  [l \in Langs |->
     IF l = "zh-rCN"
       THEN [n \in {TPL_battery} |-> <<"W">>]
       ELSE [n \in {TPL_battery, TPL_receiving_call} |->
               IF n = TPL_battery THEN <<"V">> ELSE <<"U">>]]

FormatterRequired == <<TPL_battery, TPL_receiving_call>>

\* r'<string name="(TPL_[^"]+)">([^<]+)</string>' against one node
RegexMatches(n) ==
  /\ n.kind = "string"
  /\ ~n.attrs
  /\ Len(n.name) >= 2
  /\ n.name[1] = "TPL_"
  /\ Len(n.text) >= 1
  /\ \A i \in DOMAIN n.text : n.text[i] # "<"

\* re.findall over the content, collected into a dict in order
RECURSIVE FindAll(_, _)
FindAll(ns, acc) ==
  IF ns = << >> THEN acc
  ELSE IF RegexMatches(Head(ns))
    THEN FindAll(Tail(ns), DictSet(acc, Head(ns).name, Head(ns).text))
  ELSE FindAll(Tail(ns), acc)

\* the content is read as text: an unparsable file still yields its matches
parse_template_file(f) == IF ~Exists(f) THEN << >> ELSE FindAll(f.nodes, << >>)

RECURSIVE ExistingLines(_)
ExistingLines(ps) ==
  IF ps = << >> THEN << >>
  ELSE (IF Head(ps)[1][1] = "TPL_"
          THEN << StringNode(Head(ps)[1], FALSE, Head(ps)[2]) >>
          ELSE << >>)
       \o ExistingLines(Tail(ps))

RECURSIVE TranslatedLines(_, _, _)
TranslatedLines(names, existing, translations) ==
  IF names = << >> THEN << >>
  ELSE (IF Head(names) \notin PairKeys(existing)
           /\ Head(names) \in DOMAIN translations
          THEN << StringNode(Head(names), FALSE, translations[Head(names)]) >>
          ELSE << >>)
       \o TranslatedLines(Tail(names), existing, translations)

create_template_xml(lang_code, existing) ==
  LET translations == IF lang_code \in DOMAIN TEMPLATE_TRANSLATIONS
                        THEN TEMPLATE_TRANSLATIONS[lang_code] ELSE EmptyMap
  IN WellFormed(ExistingLines(existing)
                \o TranslatedLines(FormatterRequired, existing, translations))

\* update_language_pack: the file afterwards and the value returned
update_language_pack(f, lang_code) ==
  LET existing == parse_template_file(f)
  IN IF existing = << >>
       THEN [file |-> f, ret |-> FALSE]
       ELSE [file |-> create_template_xml(lang_code, existing), ret |-> TRUE]

\* ------------------------------------------------------------------------
\* split_language_packs.py: the string categorizer
\* ------------------------------------------------------------------------
\* the category files in the order of the dict, and the names of each; as
\* in the source, strings.xml is also the name of the input file, and
\* no_service_available is in two categories once ADDITIONAL_STRINGS is
\* merged
CategoryOrder == <<"strings.xml", "strings_network.xml", "strings_common.xml">>
CategoryFiles == {CategoryOrder[i] : i \in DOMAIN CategoryOrder}

STRING_CATEGORIES ==
  [c \in CategoryFiles |->
     IF c = "strings.xml" THEN {<<"Lang">>, <<"time_format">>}
     ELSE IF c = "strings_network.xml"
       THEN {<<"no_network">>, <<"no_service_available">>}
     ELSE {<<"no_service_available">>}]

\* the names of the model in the order of Python's sorted()
SortedNames ==
  << <<"Lang">>, <<"custom_key">>, <<"no_network">>,
     <<"no_service_available">>, <<"time_format">> >>

sorted(names) ==
  LET member(n) == n \in names IN SelectSeq(SortedNames, member)

\* a <string> element with the text that follows its end tag
StringElem(n, t, tl) == [kind |-> "string", name |-> n, text |-> t, tail |-> tl]

\* a document as a parse reads it: the text after <resources>, then the
\* children with their tails
Doc(st, ld, ns) == [state |-> st, lead |-> ld, nodes |-> ns]
NoFile == Doc("absent", "", << >>)

\* an unparsable strings.xml is reported and read as the empty dict
parse_strings_xml(f) ==
  IF f.state = "ok" THEN NamedStrings(f.nodes) ELSE EmptyMap

\* pretty_print=True indents the children of an element that has no text
\* child; any tail between the children leaves the element as it is
Indented(ns) ==
  [i \in DOMAIN ns |-> [ns[i] EXCEPT !.tail = IF i = Len(ns) THEN "\n" ELSE "\n  "]]

\* create_xml_file: the elements appended to a new root (each brings its
\* tail), the tree written
create_xml_file(string_elements) ==
  IF \E i \in DOMAIN string_elements : string_elements[i].tail # ""
    THEN Doc("ok", "", string_elements)
    ELSE Doc("ok", "\n  ", Indented(string_elements))

\* the loop left at the first name the bundle lacks, instead of going on
RECURSIVE CategoryStrings_break(_, _)
CategoryStrings_break(names, all_strings) ==
  IF names = << >> \/ Head(names) \notin DOMAIN all_strings THEN << >>
  ELSE << all_strings[Head(names)] >>
       \o CategoryStrings_break(Tail(names), all_strings)

\* the elements of one category, in sorted name order
RECURSIVE CategoryStrings(_, _)
CategoryStrings(names, all_strings) ==
  IF names = << >> THEN << >>
  ELSE (IF Head(names) \in DOMAIN all_strings
          THEN << all_strings[Head(names)] >> ELSE << >>)
       \o CategoryStrings(Tail(names), all_strings)

\* categorized assigned the names of the category instead of added to
RECURSIVE SplitLoop_overwrite(_, _, _, _, _)
SplitLoop_overwrite(i, all_strings, dir, out, done) ==
  IF i > Len(CategoryOrder)
    THEN [dir |-> dir, out |-> out, categorized |-> done]
  ELSE LET c == CategoryOrder[i]
           category_strings ==
             CategoryStrings(sorted(STRING_CATEGORIES[c]), all_strings)
           names == {category_strings[k].name : k \in DOMAIN category_strings}
       IN IF category_strings # << >>
            THEN SplitLoop_overwrite(i + 1, all_strings,
                           [dir EXCEPT ![c] = create_xml_file(category_strings)],
                           [out EXCEPT ![c] = create_xml_file(category_strings)],
                           names)
            ELSE SplitLoop_overwrite(i + 1, all_strings, dir, out, done)

\* the loop over the categories from position i: dir is the directory,
\* out the documents written so far, done the names categorized so far
RECURSIVE SplitLoop(_, _, _, _, _)
SplitLoop(i, all_strings, dir, out, done) ==
  IF i > Len(CategoryOrder)
    THEN [dir |-> dir, out |-> out, categorized |-> done]
  ELSE LET c == CategoryOrder[i]
           category_strings ==
             CategoryStrings(sorted(STRING_CATEGORIES[c]), all_strings)
           names == {category_strings[k].name : k \in DOMAIN category_strings}
       IN IF category_strings # << >>
            THEN SplitLoop(i + 1, all_strings,
                           [dir EXCEPT ![c] = create_xml_file(category_strings)],
                           [out EXCEPT ![c] = create_xml_file(category_strings)],
                           done \cup names)
            ELSE SplitLoop(i + 1, all_strings, dir, out, done)

NothingWritten == [c \in CategoryFiles |-> NoFile]

\* split_language_pack: the directory afterwards, the documents written,
\* the names categorized and those left over
split_language_pack(dir) ==
  LET all_strings == parse_strings_xml(dir["strings.xml"])
      r == SplitLoop(1, all_strings, dir, NothingWritten, {})
  IN IF ~Exists(dir["strings.xml"])
       THEN [dir |-> dir, out |-> NothingWritten, categorized |-> {},
             uncategorized |-> {}, outcome |-> "no_strings_xml"]
     ELSE IF all_strings = EmptyMap
       THEN [dir |-> dir, out |-> NothingWritten, categorized |-> {},
             uncategorized |-> {}, outcome |-> "no_strings"]
     ELSE [dir |-> r.dir, out |-> r.out, categorized |-> r.categorized,
           uncategorized |-> {n \in DOMAIN all_strings : n \notin r.categorized},
           outcome |-> "split"]

\* ------------------------------------------------------------------------
\* Inputs of the template tools
\* ------------------------------------------------------------------------
\* one node of each shape a template.xml can hold, in document order
TemplateNodes ==
  << StringNode(TPL_received_sms, FALSE, <<"Z">>),
     CommentNode(<<"note">>),
     StringNode(TPL_battery, TRUE, <<"B">>),
     StringNode(TPL_receiving_call, FALSE, <<"C">>),
     StringNode(app_name, FALSE, <<"A">>),
     StringNode(TPL_received_sms, FALSE, << >>),
     StringNode(TPL_battery, FALSE, <<"<", "b", ">", "M", "<", "/", "b", ">">>) >>

\* the nodes of s at the positions of I, in order
RECURSIVE Pick(_, _, _)
Pick(s, I, i) ==
  IF i > Len(s) THEN << >>
  ELSE (IF i \in I THEN << s[i] >> ELSE << >>) \o Pick(s, I, i + 1)

TemplateFiles ==
  {NoDir, Absent, Malformed(<< >>), Malformed(<< TemplateNodes[1] >>)}
  \cup {WellFormed(Pick(TemplateNodes, I, 1)) :
          I \in {J \in SUBSET DOMAIN TemplateNodes : Cardinality(J) <= MaxLen}}

ReferenceFull ==
  << StringNode(TPL_received_sms, FALSE, <<"X">>),
     StringNode(TPL_battery, FALSE, <<" ", "Y", " ">>),
     StringNode(TPL_receiving_call, FALSE, <<"R">>) >>

ReferencePartial ==
  << StringNode(TPL_battery, FALSE, <<"Y">>),
     StringNode(app_name, FALSE, <<"A">>),
     StringNode(TPL_received_sms, FALSE, <<"X">>) >>

ReferenceFiles ==
  {Absent, Malformed(<< >>), WellFormed(<< >>),
   WellFormed(ReferenceFull), WellFormed(ReferencePartial)}


\* the entries a strings.xml may hold, in document order: the tail of each
\* is chosen with the file
StringsNames ==
  << <<"time_format">>, <<"no_service_available">>, <<"custom_key">>,
     <<"Lang">>, <<"no_network">> >>

StringsText(n) == <<"text of">> \o n

\* the document with the names at the positions of I, those at the
\* positions of T followed by a line break and indentation
StringsDoc(I, T) ==
  LET elem(i) == StringElem(StringsNames[i], StringsText(StringsNames[i]),
                            IF i \in T THEN "\n    " ELSE "")
      RECURSIVE pick(_)
      pick(i) == IF i > Len(StringsNames) THEN << >>
                 ELSE (IF i \in I THEN << elem(i) >> ELSE << >>) \o pick(i + 1)
  IN Doc("ok", IF T = {} THEN "" ELSE "\n    ", pick(1))

StringsFiles ==
  {Doc("nodir", "", << >>), NoFile, Doc("malformed", "", << >>)}
  \cup {StringsDoc(I, T) :
          I \in {J \in SUBSET DOMAIN StringsNames : Cardinality(J) <= MaxStrings},
          T \in SUBSET DOMAIN StringsNames}


\* ------------------------------------------------------------------------
\* State
\* ------------------------------------------------------------------------
VARIABLES
  packDir,              \* app/language_pack exists
  refFile,              \* app/src/main/res/values/template.xml
  tpl,                  \* language -> its template.xml
  orig,                 \* tpl before any tool ran
  before,               \* tpl when the current (or last) run started
  tool,                 \* the tool running or last run
  idx,                  \* position of the running tool in its language loop
  reference_templates,  \* the reconciler's loaded reference
  updated_count,        \* the running tool's counter
  result,               \* language -> what the current run did to it
  writes,               \* language -> writes of its file in the current run
  exit,                 \* "running", or how the last run ended
  runs,                 \* tool invocations so far
  strs,                 \* language -> category file -> document on disk
  sbefore,              \* strs when the current (or last) run started
  written,              \* language -> the documents the current run wrote
  categorized,          \* language -> the names the current run categorized
  uncategorized         \* language -> the names the current run warned of

tvars == <<packDir, refFile, tpl, orig, before, tool, idx,
           reference_templates, updated_count, result, writes, exit, runs>>

svars == <<strs, sbefore, written, categorized, uncategorized>>

Pending == [l \in Langs |-> "pending"]
NoNames == [l \in Langs |-> {}]
NoOutput == [l \in Langs |-> NothingWritten]
NoWrites == [l \in Langs |-> 0]

\* the values-* directories found by iterdir(), sorted
language_packs ==
  LET present(l) == tpl[l].state # "nodir" IN SelectSeq(LangOrder, present)

\* nothing has run yet
InitRun ==
  /\ orig = tpl
  /\ before = tpl
  /\ sbefore = strs
  /\ written = NoOutput
  /\ categorized = NoNames
  /\ uncategorized = NoNames
  /\ tool = "none"
  /\ idx = 0
  /\ reference_templates = EmptyMap
  /\ updated_count = 0
  /\ result = Pending
  /\ writes = NoWrites
  /\ exit = "none"
  /\ runs = 0

\* the template tools: any reference, any template.xml per language
InitTemplates ==
  /\ packDir \in BOOLEAN
  /\ refFile \in ReferenceFiles
  /\ tpl \in [Langs -> TemplateFiles]
  /\ ~packDir => \A l \in Langs : tpl[l] = NoDir
  /\ strs = [l \in Langs |-> [c \in CategoryFiles |-> NoFile]]
  /\ InitRun

\* the categorizer: any strings.xml per language, no category file yet
InitSplit ==
  /\ packDir \in BOOLEAN
  /\ refFile = Absent
  /\ tpl = [l \in Langs |-> Absent]
  /\ \E input \in [Langs -> StringsFiles] :
       strs = [l \in Langs |->
                 [c \in CategoryFiles |->
                    IF c = "strings.xml" THEN input[l]
                    ELSE IF input[l].state = "nodir" THEN input[l] ELSE NoFile]]
  /\ ~packDir => \A l \in Langs : strs[l]["strings.xml"].state = "nodir"
  /\ InitRun

\* a tool is started from the shell: nothing is running, the run counters
\* are fresh
Launch(t) ==
  /\ exit # "running"
  /\ runs < MaxRuns
  /\ runs' = runs + 1
  /\ tool' = t
  /\ before' = tpl
  /\ sbefore' = strs
  /\ result' = Pending
  /\ writes' = NoWrites
  /\ updated_count' = 0
  /\ written' = NoOutput
  /\ categorized' = NoNames
  /\ uncategorized' = NoNames

\* check_and_update_language_packs up to the start of the loop
ReconcilerStart ==
  /\ Launch("reconciler")
  /\ LET ref == get_reference_templates(refFile)
     IN IF ~packDir
          THEN exit' = "no_pack_dir" /\ UNCHANGED <<idx, reference_templates>>
        ELSE IF ParseRaises(refFile)
          THEN exit' = "raised" /\ UNCHANGED <<idx, reference_templates>>
        ELSE IF ~ReferenceLoaded(ref)
          THEN exit' = "no_reference" /\ UNCHANGED <<idx, reference_templates>>
        ELSE IF language_packs = << >>
          THEN exit' = "no_language_packs" /\ UNCHANGED <<idx, reference_templates>>
        ELSE /\ exit' = "running"
             /\ idx' = 1
             /\ reference_templates' = ref
  /\ UNCHANGED <<packDir, refFile, tpl, orig, strs>>

\* one iteration of the loop of check_and_update_language_packs
ReconcilerStep ==
  /\ tool = "reconciler"
  /\ exit = "running"
  /\ idx <= Len(language_packs)
  /\ LET l == language_packs[idx]
         f == tpl[l]
         missing == MissingTemplates(parse_template_xml(f))
         u == update_template_file(f, reference_templates)
         last == idx = Len(language_packs)
     IN IF Exists(f) /\ missing = << >>
          THEN /\ result' = [result EXCEPT ![l] = "all_present"]
               /\ UNCHANGED <<tpl, updated_count, writes>>
               /\ idx' = idx + 1
               /\ exit' = IF last THEN "complete" ELSE exit
        ELSE IF u.raised
          THEN /\ result' = [result EXCEPT ![l] = "raised"]
               /\ UNCHANGED <<tpl, updated_count, writes, idx>>
               /\ exit' = "raised"
        ELSE /\ tpl' = [tpl EXCEPT ![l] = u.file]
             /\ writes' = [writes EXCEPT ![l] = IF u.wrote THEN @ + 1 ELSE @]
             /\ updated_count' = IF u.ret THEN updated_count + 1 ELSE updated_count
             /\ result' = [result EXCEPT ![l] =
                             IF ~u.ret THEN "not_updated"
                             ELSE IF Exists(f) THEN "added" ELSE "created"]
             /\ idx' = idx + 1
             /\ exit' = IF last THEN "complete" ELSE exit
  /\ UNCHANGED <<packDir, refFile, orig, before, tool, reference_templates, runs>>
  /\ UNCHANGED svars

\* main of format_templates.py up to the start of the loop
FormatterStart ==
  /\ Launch("formatter")
  /\ IF ~packDir
       THEN exit' = "no_pack_dir" /\ UNCHANGED idx
       ELSE exit' = "running" /\ idx' = 1
  /\ UNCHANGED <<packDir, refFile, tpl, orig, reference_templates, strs>>

\* one iteration of the loop of main of format_templates.py
FormatterStep ==
  /\ tool = "formatter"
  /\ exit = "running"
  /\ idx <= Len(LangOrder)
  /\ LET l == LangOrder[idx]
         u == update_language_pack(tpl[l], l)
     IN /\ IF tpl[l].state = "nodir"
             THEN /\ result' = [result EXCEPT ![l] = "no_directory"]
                  /\ UNCHANGED <<tpl, updated_count, writes>>
           ELSE IF u.ret
             THEN /\ tpl' = [tpl EXCEPT ![l] = u.file]
                  /\ writes' = [writes EXCEPT ![l] = @ + 1]
                  /\ updated_count' = updated_count + 1
                  /\ result' = [result EXCEPT ![l] = "formatted"]
           ELSE /\ result' = [result EXCEPT ![l] = "no_templates"]
                /\ UNCHANGED <<tpl, updated_count, writes>>
        /\ idx' = idx + 1
        /\ exit' = IF idx = Len(LangOrder) THEN "complete" ELSE exit
  /\ UNCHANGED <<packDir, refFile, orig, before, tool, reference_templates, runs>>
  /\ UNCHANGED svars

NextTemplates ==
  \/ ReconcilerStart
  \/ ReconcilerStep
  \/ FormatterStart
  \/ FormatterStep

\* the language-pack directories the categorizer finds, sorted
split_packs ==
  LET present(l) == strs[l]["strings.xml"].state # "nodir"
  IN SelectSeq(LangOrder, present)

\* main of split_language_packs.py up to the start of the loop
SplitStart ==
  /\ Launch("categorizer")
  /\ IF ~packDir
       THEN exit' = "no_pack_dir" /\ UNCHANGED idx
     ELSE IF split_packs = << >>
       THEN exit' = "no_language_packs" /\ UNCHANGED idx
     ELSE exit' = "running" /\ idx' = 1
  /\ UNCHANGED <<packDir, refFile, tpl, orig, reference_templates, strs>>

\* one iteration of the loop of main: split_language_pack(lang_dir)
SplitStep ==
  /\ tool = "categorizer"
  /\ exit = "running"
  /\ idx <= Len(split_packs)
  /\ LET l == split_packs[idx]
         r == split_language_pack(strs[l])
     IN /\ strs' = [strs EXCEPT ![l] = r.dir]
        /\ written' = [written EXCEPT ![l] = r.out]
        /\ categorized' = [categorized EXCEPT ![l] = r.categorized]
        /\ uncategorized' = [uncategorized EXCEPT ![l] = r.uncategorized]
        /\ result' = [result EXCEPT ![l] = r.outcome]
  /\ idx' = idx + 1
  /\ exit' = IF idx = Len(split_packs) THEN "complete" ELSE exit
  /\ UNCHANGED <<packDir, refFile, tpl, orig, before, tool, reference_templates,
                 updated_count, writes, runs, sbefore>>

NextSplit ==
  \/ SplitStart
  \/ SplitStep

vars == <<tvars, svars>>

Spec == InitTemplates /\ [][NextTemplates]_vars

SpecSplit == InitSplit /\ [][NextSplit]_vars

\* ------------------------------------------------------------------------
\* Properties of the template tools
\* ------------------------------------------------------------------------
\* s is a prefix of t
IsPrefix(s, t) == Len(s) <= Len(t) /\ SubSeq(t, 1, Len(s)) = s

\* s is a subsequence of t: the elements of s occur in t in the same order
RECURSIVE IsSubSeq(_, _)
IsSubSeq(s, t) ==
  IF s = << >> THEN TRUE
  ELSE IF t = << >> THEN FALSE
  ELSE IF Head(s) = Head(t) THEN IsSubSeq(Tail(s), Tail(t))
  ELSE IsSubSeq(s, Tail(t))

IsEntry(n) == n.kind = "string"
Entries(ns) == SelectSeq(ns, IsEntry)
EntryKeys(ns) ==
  {ns[i].name : i \in {j \in DOMAIN ns : ns[j].kind = "string" /\ ns[j].name # NoName}}
RequiredSet == {REQUIRED_TEMPLATES[i] : i \in DOMAIN REQUIRED_TEMPLATES}
AllPresent(f) == f.state = "ok" /\ RequiredSet \subseteq EntryKeys(f.nodes)
\* the positions of the nodes of new that come after those of old
NewPositions(old, new) == (Len(old.nodes) + 1) .. Len(new.nodes)

\* C1: a step of the reconciler leaves every node of an existing
\* template.xml in place, in order and with its text; what it adds comes
\* after them, and every entry it adds is a required name the file lacked.
C1_ReconcilerOnlyAppends ==
  [][(tool = "reconciler" /\ exit = "running") =>
       \A l \in Langs :
         Exists(tpl[l]) =>
           /\ tpl'[l].state = tpl[l].state
           /\ IsPrefix(tpl[l].nodes, tpl'[l].nodes)
           /\ \A i \in NewPositions(tpl[l], tpl'[l]) :
                IsEntry(tpl'[l].nodes[i]) =>
                  tpl'[l].nodes[i].name \in RequiredSet \ EntryKeys(tpl[l].nodes)]_vars

\* the reconciler has appended entries to a file that had some
C1_Witness ==
  \E l \in Langs :
    /\ tool = "reconciler"
    /\ result[l] = "added"
    /\ Entries(before[l].nodes) # << >>
    /\ Len(Entries(tpl[l].nodes)) > Len(Entries(before[l].nodes))

\* C2: the file the formatter writes still holds every entry of the file
\* it read, with its attributes and text, in the same order.
C2_FormatterKeepsEntries ==
  tool = "formatter" =>
    \A l \in Langs :
      result[l] = "formatted" =>
        IsSubSeq(Entries(before[l].nodes), tpl[l].nodes)

\* C3: a required name that a non-empty template.xml lacked and that the
\* language has a translation for carries the translation once a tool has
\* added it.
C3_AddedEntryIsTranslated ==
  \A l \in Langs :
    \A k \in RequiredSet \cap DOMAIN TEMPLATE_TRANSLATIONS[l] :
      ( /\ orig[l].state = "ok"
        /\ EntryKeys(orig[l].nodes) # {}
        /\ k \notin EntryKeys(orig[l].nodes)
        /\ tpl[l].state = "ok" )
      => \A i \in DOMAIN tpl[l].nodes :
           (IsEntry(tpl[l].nodes[i]) /\ tpl[l].nodes[i].name = k)
             => tpl[l].nodes[i].text = TEMPLATE_TRANSLATIONS[l][k]

\* C4: a reconciler run that has a reference ends only after every language
\* directory was processed, whatever the state of a language's
\* template.xml.
C4_EveryLanguageProcessed ==
  ( /\ tool = "reconciler"
    /\ exit \notin {"running", "no_pack_dir", "no_reference"}
    /\ ~ParseRaises(refFile) )
  => \A i \in DOMAIN language_packs :
       result[language_packs[i]] # "pending"

\* C5: every entry the reconciler has added to a language's file, whether
\* to an existing file or to one it created, is preceded by its
\* "TODO: Translate <name>" comment.
C5_AddedEntriesAnnotated ==
  tool = "reconciler" =>
    \A l \in Langs :
      result[l] \in {"added", "created"} =>
        \A i \in NewPositions(before[l], tpl[l]) :
          IsEntry(tpl[l].nodes[i]) =>
            /\ i > 1
            /\ tpl[l].nodes[i - 1] = TodoComment(tpl[l].nodes[i].name)

\* C6: in a reconciler run, a language whose template.xml held every
\* required name is not written and not counted: the file is as it was,
\* and the count of updated languages never exceeds the number of
\* processed languages that lacked a name or the file.
C6_NoWriteWhenAllPresent ==
  tool = "reconciler" =>
    /\ \A l \in Langs :
         AllPresent(before[l]) =>
           /\ writes[l] = 0
           /\ tpl[l] = before[l]
           /\ result[l] \in {"pending", "all_present"}
    /\ updated_count <=
         Cardinality({l \in Langs : result[l] # "pending" /\ ~AllPresent(before[l])})

\* the reconciler has passed over a language that had every required name
C6_Witness ==
  \E l \in Langs :
    /\ tool = "reconciler"
    /\ AllPresent(before[l])
    /\ result[l] = "all_present"

C10_MissingReferenceAborts ==
  ( /\ tool = "reconciler"
    /\ packDir
    /\ \/ refFile.state = "absent"
       \/ refFile.state = "ok" /\ EntryKeys(refFile.nodes) = {} )
  => /\ exit = "no_reference"
     /\ tpl = before
     /\ result = Pending
     /\ writes = NoWrites
     /\ updated_count = 0

\* the run was aborted although a language had no template.xml yet
C10_Witness ==
  /\ tool = "reconciler"
  /\ exit = "no_reference"
  /\ \E l \in Langs : tpl[l].state = "absent"

\* ------------------------------------------------------------------------
\* Properties of the categorizer
\* ------------------------------------------------------------------------
\* the <<name, text>> pairs of the entries of a document
EntryPairs(ns) ==
  {<<ns[i].name, ns[i].text>> : i \in {j \in DOMAIN ns : ns[j].kind = "string"}}
\* the bundle the current run read for language l
Bundle(l) == EntryPairs(sbefore[l]["strings.xml"].nodes)

\* C8: of a language the categorizer has split, every entry written to a
\* category file is an entry of the bundle, every entry of the bundle is
\* in the file written for each category that lists its name, and the
\* files on disk are the documents written.
C8_CategorizerSoundAndCovering ==
  tool = "categorizer" =>
    \A l \in Langs :
      /\ result[l] # "split" => written[l] = NothingWritten
      /\ result[l] = "split" =>
           \A c \in CategoryFiles :
             /\ EntryPairs(written[l][c].nodes) \subseteq Bundle(l)
             /\ \A e \in Bundle(l) :
                  e[1] \in STRING_CATEGORIES[c] => e \in EntryPairs(written[l][c].nodes)
             /\ written[l][c].state = "ok" => strs[l][c] = written[l][c]

\* a name listed by two categories was written to the files of both
C8_Witness ==
  \E l \in Langs :
    \E e \in Bundle(l) :
      /\ tool = "categorizer"
      /\ result[l] = "split"
      /\ e[1] \in STRING_CATEGORIES["strings_network.xml"]
                    \cap STRING_CATEGORIES["strings_common.xml"]
      /\ e \in EntryPairs(written[l]["strings_network.xml"].nodes)
      /\ e \in EntryPairs(written[l]["strings_common.xml"].nodes)

\* C9: every document a second (or later) run of the categorizer writes is
\* identical, whitespace included, to the file of that name the run before
\* it left on disk.
C9_SecondRunIdentical ==
  (tool = "categorizer" /\ runs >= 2) =>
    \A l \in Langs :
      \A c \in CategoryFiles :
        written[l][c].state = "ok" => written[l][c] = sbefore[l][c]

\* the names of the bundle the current run read for language l
BundleNames(l) == {e[1] : e \in Bundle(l)}
\* the names some category of the schema lists
SchemaNames == UNION {STRING_CATEGORIES[c] : c \in CategoryFiles}

\* C11: of a language the categorizer has split, the names reported as
\* uncategorized are exactly the names of the bundle that no category
\* lists; for a language it did not split nothing is reported.
C11_UncategorizedExact ==
  tool = "categorizer" =>
    \A l \in Langs :
      /\ result[l] = "split" => uncategorized[l] = BundleNames(l) \ SchemaNames
      /\ result[l] # "split" => uncategorized[l] = {}

\* a bundle was split that holds a categorized name and one in no category
C11_Witness ==
  \E l \in Langs :
    /\ tool = "categorizer"
    /\ result[l] = "split"
    /\ uncategorized[l] # {}
    /\ BundleNames(l) \cap SchemaNames # {}

\* C12: of a language the categorizer has split, every name the input
\* strings.xml held is still the name of an entry of some XML file of the
\* directory.
C12_NoEntryLostFromDisk ==
  tool = "categorizer" =>
    \A l \in Langs :
      result[l] = "split" =>
        \A n \in BundleNames(l) :
          \E c \in CategoryFiles :
            \E e \in EntryPairs(strs[l][c].nodes) : e[1] = n

====
